---- MODULE Spec2Model ----
(***************************************************************************)
(* A model of src/query.py: the Query builder.                             *)
(*                                                                         *)
(* Strings are sequences of tokens.  A token is one piece of punctuation,  *)
(* one blank (" " or "\n"), one keyword, one decimal digit, or one         *)
(* fragment handed in by the caller (a column, a condition, a table name,  *)
(* an alias).  Fragments are non-empty, single-line and carry no leading   *)
(* or trailing blank, so strip(), splitlines() and textwrap.indent() are   *)
(* exact at this granularity.                                              *)
(*                                                                         *)
(* Query objects live in a heap: a function from object names to records   *)
(* of the fields set by Query.__init__.  Every method is an operator from  *)
(* heap to heap; build() also returns the rendered string.                 *)
(***************************************************************************)
EXTENDS Integers, Sequences, FiniteSets, TLC

VARIABLES
    q,          \* the heap: q[b] is the Query object named b
    pure,       \* the heap as it would be had build() never been called
    ret,        \* value returned by the most recent call
    last,       \* the most recent call: its method, its object, and whether
                \* it is a build() that directly follows a build() of the same object
    left,       \* calls the client may still make
    clients,    \* the objects the client calls methods on
    recording,  \* whether the calls are logged
    log         \* the calls made so far, when recording

vars == <<q, pure, ret, last, left, clients, recording, log>>

-----------------------------------------------------------------------------
\* Bounds of the model.

MaxCalls == 3
MaxOneCalls == 4
MaxOrderCalls == 3

-----------------------------------------------------------------------------
\* Objects and inputs.

Builders == {"outer", "mid", "inner"}

\* The objects a builder may be handed as a CTE.  The embedding relation is
\* kept acyclic: a Query that reaches itself through _ctes never returns
\* from build().
Embeddable(b) ==
    CASE b = "outer" -> {"mid", "inner"}
      [] b = "mid"   -> {"inner"}
      [] OTHER       -> {}

TableOf(b) ==
    CASE b = "outer" -> <<"foo">>
      [] b = "mid"   -> <<"bar">>
      [] OTHER       -> <<"baz">>

\* None, and an int n, as values of an optional int field.
None == <<>>
Some(n) == <<n>>

\* No object, no call.
Nil == "nil"

Single(s) == [list |-> FALSE, val |-> s]
List(ss) == [list |-> TRUE, val |-> ss]

SelectArgs == {Single(<<"x">>), List(<< <<"m">>, <<"y">> >>)}
WhereArgs == {Single(<<"a > 1">>), List(<< <<"b < 2">>, <<"c = 3">> >>)}
OrWhereArgs == {Single(<<"d > 4">>), List(<< <<"e < 5">>, <<"f = 6">> >>)}
GroupByArgs == {Single(<<"x">>), Single(<<"y">>), List(<< <<"x">>, <<"y">> >>)}
OrderByArgs == {Single(<<"x">>), List(<< <<"y">>, <<"m">> >>)}
LimitArgs == {Some(0), Some(5)}
OffsetArgs == {Some(0), Some(10)}
Aliases == {<<"t1">>, <<"t2">>}

-----------------------------------------------------------------------------
\* String primitives used by build().

NL == <<"\n">>

IsBlank(tok) == tok \in {" ", "\n"}

RECURSIVE LStrip(_)
LStrip(s) ==
    IF s # <<>> /\ IsBlank(Head(s)) THEN LStrip(Tail(s)) ELSE s

RECURSIVE RStrip(_)
RStrip(s) ==
    IF s # <<>> /\ IsBlank(s[Len(s)]) THEN RStrip(SubSeq(s, 1, Len(s) - 1)) ELSE s

strip(s) == RStrip(LStrip(s))

RECURSIVE join(_, _)
join(sep, items) ==
    IF items = <<>> THEN <<>>
    ELSE IF Len(items) = 1 THEN items[1]
    ELSE items[1] \o sep \o join(sep, Tail(items))

\* str.splitlines(keepends=True)
RECURSIVE splitlines(_, _)
splitlines(s, cur) ==
    IF s = <<>> THEN (IF cur = <<>> THEN <<>> ELSE <<cur>>)
    ELSE IF Head(s) = "\n" THEN <<cur \o NL>> \o splitlines(Tail(s), <<>>)
    ELSE splitlines(Tail(s), Append(cur, Head(s)))

RECURSIVE IndentLines(_, _)
IndentLines(lines, prefix) ==
    IF lines = <<>> THEN <<>>
    ELSE (IF strip(Head(lines)) # <<>> THEN prefix \o Head(lines) ELSE Head(lines))
         \o IndentLines(Tail(lines), prefix)

\* indent that prefixes the text once instead of every line.
indentOnce(text, prefix) == prefix \o text

\* textwrap.indent(text, prefix)
indent(text, prefix) == IndentLines(splitlines(text, <<>>), prefix)

Digit(d) == <<"0", "1", "2", "3", "4", "5", "6", "7", "8", "9">>[d + 1]

\* str(n) for a non-negative int
RECURSIVE str(_)
str(n) == IF n < 10 THEN <<Digit(n)>> ELSE str(n \div 10) \o <<Digit(n % 10)>>

\* truth value of an optional int
Truthy(v) == v # None /\ v[1] # 0

\* x in list
In(x, list) == \E i \in 1..Len(list) : list[i] = x

\* list.insert(idx, x)
insert(list, idx, x) ==
    LET i == IF idx > Len(list) THEN Len(list) ELSE idx
    IN  SubSeq(list, 1, i) \o <<x>> \o SubSeq(list, i + 1, Len(list))

-----------------------------------------------------------------------------
\* Query.__init__
Query(table, add_groupbys_to_select) ==
    [table |-> table,
     selects |-> <<>>,
     wheres |-> <<>>,
     orwheres |-> <<>>,
     groupbys |-> <<>>,
     orderbys |-> <<>>,
     ctes |-> <<>>,
     limit |-> None,
     offset |-> None,
     add_groupbys_to_select |-> add_groupbys_to_select]

\* list.extend / list.append, chosen on type(arg) is list
Extended(list, arg) == IF arg.list THEN list \o arg.val ELSE Append(list, arg.val)

select(h, self, column) == [h EXCEPT ![self].selects = Extended(@, column)]
\* where() that extends the select list.
whereIntoSelects(h, self, cond) == [h EXCEPT ![self].selects = Extended(@, cond)]

where(h, self, cond) == [h EXCEPT ![self].wheres = Extended(@, cond)]
orwhere(h, self, cond) == [h EXCEPT ![self].orwheres = Extended(@, cond)]
groupby(h, self, column) == [h EXCEPT ![self].groupbys = Extended(@, column)]
orderby(h, self, column) == [h EXCEPT ![self].orderbys = Extended(@, column)]
limit(h, self, l) == [h EXCEPT ![self].limit = l]
offset(h, self, o) == [h EXCEPT ![self].offset = o]
cte(h, self, query, alias) ==
    [h EXCEPT ![self].ctes = Append(@, [query |-> query, alias |-> alias])]

\* AddGroupbys without the membership test.
RECURSIVE AddGroupbysUnchecked(_, _, _)
AddGroupbysUnchecked(selects, groupbys, idx) ==
    IF groupbys = <<>> THEN selects
    ELSE AddGroupbysUnchecked(insert(selects, idx, Head(groupbys)), Tail(groupbys), idx + 1)

\* The loop of build() that adds the group-by columns to the select list.
RECURSIVE AddGroupbys(_, _, _)
AddGroupbys(selects, groupbys, idx) ==
    IF groupbys = <<>> THEN selects
    ELSE LET col == Head(groupbys)
         IN  IF ~In(col, selects)
             THEN AddGroupbys(insert(selects, idx, col), Tail(groupbys), idx + 1)
             ELSE AddGroupbys(selects, Tail(groupbys), idx)

\* The WHERE line with every or-condition after its own ' OR '.
WhereLineDelimited(wheres, orwheres) ==
    <<"WHERE", " ">> \o join(<<" ", "AND", " ">>, wheres)
    \o (IF orwheres # <<>>
        THEN <<" ", "OR", " ">> \o join(<<" ", "OR", " ">>, orwheres)
        ELSE <<>>)

\* The WHERE line of build(), without its newline.
WhereLine(wheres, orwheres) ==
    LET ands == <<"WHERE", " ">> \o wheres[1]
                \o (IF Tail(wheres) # <<>>
                    THEN <<" ", "AND", " ">> \o join(<<" ", "AND", " ">>, Tail(wheres))
                    ELSE <<>>)
        ors  == IF orwheres # <<>>
                THEN <<" ", "OR", " ">> \o orwheres[1]
                     \o (IF Tail(orwheres) # <<>>
                         THEN join(<<" ", "OR", " ">>, Tail(orwheres))
                         ELSE <<>>)
                ELSE <<>>
    IN  ands \o ors

LimitClause(l) == IF Truthy(l) THEN <<"LIMIT", " ">> \o str(l[1]) ELSE <<>>
OffsetClause(o) == IF Truthy(o) THEN <<"OFFSET", " ">> \o str(o[1]) ELSE <<>>

\* Everything build() appends from 'SELECT ' on, before strip().
Body(o) ==
    <<"SELECT", " ">>
    \o join(<<",", " ">>, IF o.selects # <<>> THEN o.selects ELSE << <<"*">> >>) \o NL
    \o <<"FROM", " ">> \o o.table \o NL
    \o (IF o.wheres # <<>> THEN WhereLine(o.wheres, o.orwheres) \o NL ELSE <<>>)
    \o (IF o.groupbys # <<>>
        THEN <<"GROUP", " ", "BY", " ">> \o join(<<",", " ">>, o.groupbys) \o NL
        ELSE <<>>)
    \o (IF o.orderbys # <<>>
        THEN <<"ORDER", " ", "BY", " ">> \o join(<<",", " ">>, o.orderbys) \o NL
        ELSE <<>>)
    \o LimitClause(o.limit)
    \o OffsetClause(o.offset)

RECURSIVE build(_, _)
RECURSIVE CteParts(_, _)

\* The list comprehension of _build_ctes: every embedded query is built, in
\* order, on the heap the previous one left.
CteParts(h, entries) ==
    IF entries = <<>> THEN [heap |-> h, parts |-> <<>>]
    ELSE LET e    == Head(entries)
             r    == build(h, e.query)
             part == e.alias \o <<" ", "AS", " ", "(", "\n">>
                     \o indent(r.out, <<" ", " ">>) \o <<"\n", ")">>
             rest == CteParts(r.heap, Tail(entries))
         IN  [heap |-> rest.heap, parts |-> <<part>> \o rest.parts]

\* Query._build_ctes
build_ctes(h, self) ==
    LET r == CteParts(h, h[self].ctes)
    IN  [heap |-> r.heap,
         out  |-> <<"WITH", " ">> \o join(<<",", "\n">>, r.parts) \o NL]

\* Query.build
build(h, self) ==
    LET h1 == IF h[self].groupbys # <<>> /\ h[self].add_groupbys_to_select
              THEN [h EXCEPT ![self].selects = AddGroupbys(@, h[self].groupbys, 0)]
              ELSE h
        c  == IF h1[self].ctes # <<>>
              THEN build_ctes(h1, self)
              ELSE [heap |-> h1, out |-> <<>>]
    IN  [heap |-> c.heap, out |-> strip(c.out \o Body(c.heap[self]))]

-----------------------------------------------------------------------------
\* The state machine: a client calling methods on the objects.

\* Bookkeeping of a call: who was called, and one call less to make.
Called(call) ==
    /\ left' = left - 1
    /\ last' = [op |-> call.op, self |-> call.self,
                again |-> call.op = "build" /\ last.op = "build" /\ last.self = call.self]
    /\ log' = IF recording THEN Append(log, call) ELSE log
    /\ UNCHANGED <<clients, recording>>

Callable(b) == left > 0 /\ b \in clients

\* 'return self'
Self(b) == [query |-> b, text |-> <<>>]

Select(b, column) ==
    /\ Callable(b)
    /\ q' = select(q, b, column)
    /\ pure' = select(pure, b, column)
    /\ ret' = Self(b)
    /\ Called([op |-> "select", self |-> b, arg |-> column])

Where(b, cond) ==
    /\ Callable(b)
    /\ q' = where(q, b, cond)
    /\ pure' = where(pure, b, cond)
    /\ ret' = Self(b)
    /\ Called([op |-> "where", self |-> b, arg |-> cond])

OrWhere(b, cond) ==
    /\ Callable(b)
    /\ q' = orwhere(q, b, cond)
    /\ pure' = orwhere(pure, b, cond)
    /\ ret' = Self(b)
    /\ Called([op |-> "orwhere", self |-> b, arg |-> cond])

GroupBy(b, column) ==
    /\ Callable(b)
    /\ q' = groupby(q, b, column)
    /\ pure' = groupby(pure, b, column)
    /\ ret' = Self(b)
    /\ Called([op |-> "groupby", self |-> b, arg |-> column])

OrderBy(b, column) ==
    /\ Callable(b)
    /\ q' = orderby(q, b, column)
    /\ pure' = orderby(pure, b, column)
    /\ ret' = Self(b)
    /\ Called([op |-> "orderby", self |-> b, arg |-> column])

Limit(b, l) ==
    /\ Callable(b)
    /\ q' = limit(q, b, l)
    /\ pure' = limit(pure, b, l)
    /\ ret' = Self(b)
    /\ Called([op |-> "limit", self |-> b, arg |-> l])

Offset(b, o) ==
    /\ Callable(b)
    /\ q' = offset(q, b, o)
    /\ pure' = offset(pure, b, o)
    /\ ret' = Self(b)
    /\ Called([op |-> "offset", self |-> b, arg |-> o])

Cte(b, query, alias) ==
    /\ Callable(b)
    /\ q' = cte(q, b, query, alias)
    /\ pure' = cte(pure, b, query, alias)
    /\ ret' = Self(b)
    /\ Called([op |-> "cte", self |-> b, arg |-> <<query, alias>>])

Build(b) ==
    /\ Callable(b)
    /\ q' = build(q, b).heap
    /\ ret' = [query |-> Nil, text |-> build(q, b).out]
    /\ UNCHANGED pure
    /\ Called([op |-> "build", self |-> b, arg |-> Nil])

Start(n, cs, rec) ==
    /\ q \in {[b \in Builders |-> Query(TableOf(b), IF b = "outer" THEN f ELSE TRUE)]
                : f \in BOOLEAN}
    /\ pure = q
    /\ ret = [query |-> Nil, text |-> <<>>]
    /\ last = [op |-> "init", self |-> Nil, again |-> FALSE]
    /\ left = n
    /\ clients = cs
    /\ recording = rec
    /\ log = <<>>

Init == Start(MaxCalls, Builders, FALSE)
InitOne == Start(MaxOneCalls, {"outer"}, FALSE)
InitOrder == Start(MaxOrderCalls, {"outer"}, TRUE)

Next ==
    \/ \E b \in Builders, a \in SelectArgs : Select(b, a)
    \/ \E b \in Builders, a \in WhereArgs : Where(b, a)
    \/ \E b \in Builders, a \in OrWhereArgs : OrWhere(b, a)
    \/ \E b \in Builders, a \in GroupByArgs : GroupBy(b, a)
    \/ \E b \in Builders, a \in OrderByArgs : OrderBy(b, a)
    \/ \E b \in Builders, l \in LimitArgs : Limit(b, l)
    \/ \E b \in Builders, o \in OffsetArgs : Offset(b, o)
    \/ \E b \in Builders : \E e \in Embeddable(b), a \in Aliases : Cte(b, e, a)
    \/ \E b \in Builders : Build(b)

Spec == Init /\ [][Next]_vars
SpecOne == InitOne /\ [][Next]_vars
SpecOrder == InitOrder /\ [][Next]_vars

-----------------------------------------------------------------------------
\* Helpers of the properties.

Built == last.op = "build"

\* The step is a call of build() on b.
BuildStep(b) == left' = left - 1 /\ last'.op = "build" /\ last'.self = b

Count(x, list) == Cardinality({i \in 1..Len(list) : list[i] = x})

Columns == {<<"x">>, <<"y">>, <<"m">>}

\* The lines of a string, without their newlines.
RECURSIVE LinesOf(_, _)
LinesOf(s, cur) ==
    IF s = <<>> THEN <<cur>>
    ELSE IF Head(s) = "\n" THEN <<cur>> \o LinesOf(Tail(s), <<>>)
    ELSE LinesOf(Tail(s), Append(cur, Head(s)))

Lines(s) == LinesOf(s, <<>>)

RECURSIVE Pad(_)
Pad(depth) == IF depth = 0 THEN <<>> ELSE <<" ", " ">> \o Pad(depth - 1)

\* Every line of s preceded by two spaces per nesting level.
RECURSIVE PadLines(_, _)
PadLines(s, depth) ==
    LET RECURSIVE AfterNL(_)
        AfterNL(t) ==
            IF t = <<>> THEN <<>>
            ELSE IF Head(t) = "\n" THEN NL \o Pad(depth) \o AfterNL(Tail(t))
            ELSE <<Head(t)>> \o AfterNL(Tail(t))
    IN  Pad(depth) \o AfterNL(s)

-----------------------------------------------------------------------------
\* C1: build() is idempotent.  A build() that directly follows a build() of
\* the same builder returns the same string, and leaves the select list as the
\* first one left it.
C1_BuildIdempotent ==
    [][\A b \in Builders :
         (Built /\ last.self = b /\ BuildStep(b))
            => /\ ret'.text = ret.text
               /\ q'[b].selects = q[b].selects]_vars

\* build() has been called twice in a row on a builder whose first build()
\* added group-by columns to the select list.
C1_Witness ==
    /\ Built /\ last.again
    /\ q[last.self].groupbys # <<>>
    /\ q[last.self].selects # pure[last.self].selects

-----------------------------------------------------------------------------
\* C3: group-by auto-inclusion.  After build() on a builder whose flag is
\* true every group-by column is selected; build() raises the number of
\* occurrences of a column only from zero, and only for a group-by column;
\* with the flag false or no group-by column build() leaves the select list
\* as it was.
C3_GroupbysAdded ==
    [][\A b \in Builders :
         BuildStep(b)
            => LET o == q[b]
                   after == q'[b].selects
               IN  /\ o.add_groupbys_to_select
                        => \A i \in 1..Len(o.groupbys) : In(o.groupbys[i], after)
                   /\ \A col \in Columns :
                        /\ In(col, o.selects)
                             => Count(col, after) = Count(col, o.selects)
                        /\ Count(col, after) > Count(col, o.selects)
                             => In(col, o.groupbys) /\ Count(col, after) = 1
                   /\ (~o.add_groupbys_to_select \/ o.groupbys = <<>>)
                        => after = o.selects]_vars

\* build() has run on a builder with one group-by column that was selected
\* already and one that build() had to add.
C3_Witness ==
    /\ Built
    /\ LET o == q[last.self]
       IN  /\ o.add_groupbys_to_select
           /\ \E i \in 1..Len(o.groupbys) : In(o.groupbys[i], pure[last.self].selects)
           /\ \E i \in 1..Len(o.groupbys) : ~In(o.groupbys[i], pure[last.self].selects)

-----------------------------------------------------------------------------
\* The query of b without its CTEs.
Own(b) == build([q EXCEPT ![b].ctes = <<>>], b).out

\* The string the CTE rules describe for b at a nesting depth: the WITH
\* prologue, one entry per CTE in the order of the cte() calls, each entry
\* holding the embedded query one level deeper, then b's own query.
RECURSIVE Described(_, _)
Described(b, depth) ==
    LET entries == q[b].ctes
        Entry(i) == entries[i].alias \o <<" ", "AS", " ", "(", "\n">>
                    \o Described(entries[i].query, depth + 1)
                    \o NL \o Pad(depth) \o <<")">>
    IN  IF entries = <<>> THEN PadLines(Own(b), depth)
        ELSE Pad(depth) \o <<"WITH", " ">>
             \o join(<<",", "\n">> \o Pad(depth), [i \in 1..Len(entries) |-> Entry(i)])
             \o NL \o PadLines(Own(b), depth)

\* C4: CTE rendering.  With at least one CTE entry build() returns 'WITH '
\* and, per entry in the order of the cte() calls, alias AS ( newline, the
\* embedded build() output indented by two spaces, newline ), the entries
\* separated by comma newline, then a newline and the outer query; with no
\* CTE entry it starts with SELECT.  A CTE inside a CTE is indented by two
\* more spaces per nesting level.
C4_CteRendering ==
    Built =>
        /\ ret.text = Described(last.self, 0)
        /\ ret.text[1] = (IF q[last.self].ctes = <<>> THEN "SELECT" ELSE "WITH")

\* build() has run on a builder whose CTE itself holds a CTE.
C4_Witness ==
    /\ Built
    /\ \E i \in 1..Len(q[last.self].ctes) : q[q[last.self].ctes[i].query].ctes # <<>>

-----------------------------------------------------------------------------
\* The string made of the strings of a list, one after the other.
RECURSIVE Concat(_)
Concat(items) == IF items = <<>> THEN <<>> ELSE Head(items) \o Concat(Tail(items))

\* The lines of the last build() output that start with a keyword.
LinesStarting(keyword) ==
    LET ls == Lines(ret.text)
    IN  SelectSeq(ls, LAMBDA l : l # <<>> /\ l[1] = keyword)

Occurs(tok, s) == \E i \in 1..Len(s) : s[i] = tok

\* C7: WHERE rendering.  build() emits a WHERE line exactly when the where
\* list is non-empty.  The line is 'WHERE ', the where conditions joined by
\* ' AND ', then, with a non-empty or-where list, ' OR ', the first or-where
\* condition and, right after it with no separator, the other or-where
\* conditions joined by ' OR '.  With an empty where list no or-where
\* condition occurs in the output.
C7_WhereRendering ==
    Built =>
        LET o == q[last.self]
            found == LinesStarting("WHERE")
        IN  /\ (found # <<>>) <=> (o.wheres # <<>>)
            /\ o.wheres # <<>> =>
                 found = << <<"WHERE", " ">> \o join(<<" ", "AND", " ">>, o.wheres)
                            \o (IF o.orwheres = <<>> THEN <<>>
                                ELSE <<" ", "OR", " ">> \o Head(o.orwheres)
                                     \o join(<<" ", "OR", " ">>, Tail(o.orwheres))) >>
            /\ o.wheres = <<>> =>
                 \A i \in 1..Len(o.orwheres) : ~Occurs(o.orwheres[i][1], ret.text)

\* build() has run on a builder with two where conditions or more and three
\* or-where conditions or more.
C7_Witness ==
    /\ Built
    /\ Len(q[last.self].wheres) >= 2
    /\ Len(q[last.self].orwheres) >= 3

\* C8: with a non-empty where list and one or two or-where conditions, the
\* WHERE line is the where conditions joined by ' AND ' followed by every
\* or-where condition, each after ' OR '.
C8_FewOrWheresDelimited ==
    (Built /\ q[last.self].wheres # <<>> /\ Len(q[last.self].orwheres) \in {1, 2})
        => LinesStarting("WHERE")
             = << <<"WHERE", " ">> \o join(<<" ", "AND", " ">>, q[last.self].wheres)
                  \o Concat([i \in 1..Len(q[last.self].orwheres) |->
                               <<" ", "OR", " ">> \o q[last.self].orwheres[i]]) >>

-----------------------------------------------------------------------------
ClauseKeywords == {"SELECT", "FROM", "WHERE", "GROUP", "ORDER", "LIMIT", "OFFSET"}

\* The token at position i of s is the first of its line that is no space.
StartsLine(s, i) ==
    \E j \in 0..(i - 1) :
        /\ j = 0 \/ s[j] = "\n"
        /\ \A k \in (j + 1)..(i - 1) : s[k] = " "

\* C10: LIMIT and OFFSET.  build() emits a LIMIT clause exactly when the
\* last limit() value is set and non-zero, an OFFSET clause exactly when the
\* last offset() value is set and non-zero; every clause starts on its own
\* line, so with both non-zero the output ends with the line 'LIMIT n'
\* followed by the line 'OFFSET m'.
C10_LimitOffsetLines ==
    Built =>
        LET o == q[last.self]
            ls == Lines(ret.text)
        IN  /\ Occurs("LIMIT", ret.text) <=> Truthy(o.limit)
            /\ Occurs("OFFSET", ret.text) <=> Truthy(o.offset)
            /\ \A i \in 1..Len(ret.text) :
                 ret.text[i] \in ClauseKeywords => StartsLine(ret.text, i)
            /\ (Truthy(o.limit) /\ Truthy(o.offset))
                 => /\ Len(ls) >= 2
                    /\ ls[Len(ls) - 1] = <<"LIMIT", " ">> \o str(o.limit[1])
                    /\ ls[Len(ls)] = <<"OFFSET", " ">> \o str(o.offset[1])

-----------------------------------------------------------------------------
\* C5: rendering does not invalidate a builder.  The string a build() call
\* returns is the string build() returns on the builder that received the
\* same configuration calls and no build() call before.
C5_BuildDoesNotInvalidate ==
    Built => ret.text = build(pure, last.self).out

\* The order-preserving selections of the elements of a list.
SubSeqs(list) ==
    {LET RECURSIVE Pick(_)
         Pick(i) == IF i > Len(list) THEN <<>>
                    ELSE (IF i \in keep THEN <<list[i]>> ELSE <<>>) \o Pick(i + 1)
     IN  Pick(1) : keep \in SUBSET (1..Len(list))}

\* C6: order of the added group-by columns.  The select list is the group-by
\* columns build() added, in the relative order they have in the group-by
\* list, followed by the columns added through select() in the order they
\* were added.
C6_AddedGroupbysInFront ==
    \A b \in Builders :
        \E added \in SubSeqs(q[b].groupbys) :
            q[b].selects = added \o pure[b].selects

-----------------------------------------------------------------------------
\* C9: an embedded builder is a read-only reference.  build() on a builder
\* changes no other builder, and changes no field of the builder itself
\* other than its select list.
C9_EmbeddedUnchanged ==
    [][\A b \in Builders :
         BuildStep(b)
            => /\ \A e \in Builders \ {b} : q'[e] = q[e]
               /\ q'[b] = [q[b] EXCEPT !.selects = q'[b].selects]]_vars

-----------------------------------------------------------------------------
\* The heap a logged configuration call leaves.
Apply(h, call) ==
    CASE call.op = "select"  -> select(h, call.self, call.arg)
      [] call.op = "where"   -> where(h, call.self, call.arg)
      [] call.op = "orwhere" -> orwhere(h, call.self, call.arg)
      [] call.op = "groupby" -> groupby(h, call.self, call.arg)
      [] call.op = "orderby" -> orderby(h, call.self, call.arg)
      [] call.op = "limit"   -> limit(h, call.self, call.arg)
      [] call.op = "offset"  -> offset(h, call.self, call.arg)
      [] call.op = "cte"     -> cte(h, call.self, call.arg[1], call.arg[2])

RECURSIVE Replay(_, _)
Replay(h, calls) ==
    IF calls = <<>> THEN h ELSE Replay(Apply(h, Head(calls)), Tail(calls))

\* The builders as constructed.
Fresh == [b \in Builders |-> Query(q[b].table, q[b].add_groupbys_to_select)]

Methods == <<"select", "where", "orwhere", "groupby", "orderby", "limit", "offset", "cte">>

\* The calls of a sequence grouped by method, the calls of the same method in
\* their relative order.  Two sequences are rearrangements of each other that
\* keep the calls of the same method in their relative order exactly when
\* they have the same grouping, and the grouping of a sequence is itself
\* such a rearrangement of it.
RECURSIVE GroupedFrom(_, _)
GroupedFrom(calls, m) ==
    IF m > Len(Methods) THEN <<>>
    ELSE SelectSeq(calls, LAMBDA c : c.op = Methods[m]) \o GroupedFrom(calls, m + 1)

Grouped(calls) == GroupedFrom(calls, 1)

OnlyConfigured == recording /\ \A i \in 1..Len(log) : log[i].op # "build"

\* C2: order independence of configuration.  On a fresh builder, a sequence
\* of configuration calls gives the same build() output as its grouping by
\* method, hence as every rearrangement of it that keeps the calls of the
\* same method in their relative order; and every configuration call returns
\* the builder it was called on.
C2_OrderIndependent ==
    OnlyConfigured =>
        /\ build(Replay(Fresh, Grouped(log)), "outer").out = build(q, "outer").out
        /\ log # <<>> => ret.query = log[Len(log)].self

\* Three configuration calls of three methods have been made, a select()
\* after a groupby() among them.
C2_Witness ==
    /\ OnlyConfigured
    /\ Len(log) = 3
    /\ Cardinality({log[i].op : i \in 1..3}) = 3
    /\ \E i, j \in 1..3 : i < j /\ log[i].op = "groupby" /\ log[j].op = "select"

====
